---- MODULE Spec2Model ----
(***************************************************************************)
(* Bank product recommender (service/app): the artifact store, the         *)
(* feature builder, scoring, ranking and filtering, the request handlers   *)
(* and the startup sequence.                                               *)
(*                                                                         *)
(* Conventions.                                                            *)
(*   - An Optional[T] value is a set with at most one element: {} is None, *)
(*     {v} is the value v.                                                 *)
(*   - A Python str that the code takes apart (the observation date) is a  *)
(*     sequence of one-character strings; the other strings are atoms.     *)
(*   - A probability is an integer number of 1e-7 units (Scale is 1.0).    *)
(*   - log_renta is an integer number of 1e-6 units.                       *)
(*   - The histograms and counters of app/core/metrics.py other than       *)
(*     PREDICTION_ERRORS only record observations and are left out.        *)
(***************************************************************************)
EXTENDS Integers, Sequences, FiniteSets, TLC

VARIABLES
    phase,       \* position of the process in lifespan (main.py)
    store,       \* the module global _store and the fields of the ModelStore
    predictor,   \* the module global _predictor: "None" or "bound"
    loadpc,      \* position inside ModelStore.load_model
    loadResult,  \* how the last load_model call ended
    loadErrors,  \* the violations listed by the last ValueError of _validate
    now,         \* the wall clock, as far as the code reads it: <<year, month>>
    last,        \* the last request handled and its response
    memo,        \* an earlier answered predict request, kept for comparison
    predErrors,  \* the counter PREDICTION_ERRORS
    call,        \* a function of predictor.py called on its own, and its result
    threads      \* the local variables of each worker thread inside predict

vars == <<phase, store, predictor, loadpc, loadResult, loadErrors, now,
          last, memo, predErrors, call, threads>>

None == {}
Some(v) == {v}
Val(o) == CHOOSE v \in o : TRUE

Range(s) == {s[i] : i \in 1..Len(s)}

\* ---------------------------------------------------------------------------
\* Bounds of the model
\* ---------------------------------------------------------------------------
MaxTicks == 2
MaxErrors == 2

\* ---------------------------------------------------------------------------
\* store.py: the expected keys of the artifact
\* ---------------------------------------------------------------------------
EXPECTED_KEYS == {"models", "feature_cols", "target_cols", "product_cols",
                  "label_encoders", "product_names", "top20_canal", "top20_prov"}

\* ---------------------------------------------------------------------------
\* The artifact bundles joblib.load can return (model.bin is produced offline).
\* A classifier is a decision stump over one column of the feature vector;
\* n_features is the width it was trained on, n_classes the number of classes
\* it saw in training (predict_proba returns that many values).
\* ---------------------------------------------------------------------------
Scale == 10 * 1000 * 1000

PA == "ind_cco_fin_ult1"
PB == "ind_recibo_ult1"
PC == "ind_tjcr_fin_ult1"

Stump(n, feat, thr, lo, hi, ncls) ==
    [n_features |-> n, feat |-> feat, thr |-> thr, lo |-> lo, hi |-> hi,
     n_classes |-> ncls]

NumericCols == <<"age", "log_renta", "antiguedad", "ind_nuevo", "indrel",
                 "ind_actividad_cliente", "cod_prov">>
EncodedCols == <<"sexo_enc", "ind_empleado_enc", "tiprel_1mes_enc", "indresi_enc",
                 "indext_enc", "indfall_enc", "segmento_enc", "indrel_1mes_enc",
                 "canal_entrada_enc", "pais_residencia_enc", "nomprov_enc">>
TailCols == <<"n_products", "product_changes", "month", "months_since_start">>

\* 25 columns: n_products is column 22, month 24, months_since_start 25
FeatureCols3 == NumericCols \o EncodedCols
                \o <<"prev_ind_cco_fin_ult1", "prev_ind_recibo_ult1",
                     "prev_ind_tjcr_fin_ult1">> \o TailCols
\* 24 columns, for a catalog of two distinct products
FeatureCols2 == NumericCols \o EncodedCols
                \o <<"prev_ind_cco_fin_ult1", "prev_ind_recibo_ult1">> \o TailCols
\* an artifact with a column the builder does not compute, and without "age"
FeatureColsExtra == Tail(NumericCols) \o EncodedCols
                \o <<"prev_ind_cco_fin_ult1", "prev_ind_recibo_ult1",
                     "prev_ind_tjcr_fin_ult1">> \o TailCols \o <<"unused_col">>

\* LabelEncoder.classes_ of each fitted encoder (sorted, as sklearn keeps them)
Encoders ==
    [sexo |-> <<"H", "V", "nan">>,
     ind_empleado |-> <<"A", "B", "F", "N", "S", "nan">>,
     tiprel_1mes |-> <<"A", "I", "P", "R", "nan">>,
     indresi |-> <<"N", "S">>,
     indext |-> <<"N", "S">>,
     indfall |-> <<"N", "S">>,
     segmento |-> <<"01 - TOP", "02 - PARTICULARES", "03 - UNIVERSITARIO", "nan">>,
     indrel_1mes |-> <<"1", "2", "3", "4", "P", "nan">>,
     canal_entrada |-> <<"KAT", "KFC", "KHE", "OTHER">>,
     nomprov |-> <<"BARCELONA", "MADRID", "OTHER">>]

Names3 == (PA :> "Current account") @@ (PB :> "Direct debit")

MkBundle(models, feature_cols, product_cols, encoders, names) ==
    [models |-> models, feature_cols |-> feature_cols,
     target_cols |-> product_cols, product_cols |-> product_cols,
     label_encoders |-> encoders, product_names |-> names,
     top20_canal |-> <<"KHE", "KAT", "KFC">>,
     top20_prov |-> <<"MADRID", "BARCELONA">>]

Without(b, keys) == [k \in (DOMAIN b) \ keys |-> b[k]]

RefModels ==
    (PA :> Stump(25, 1, 0, 3000000, 3000000, 2))
    @@ (PB :> Stump(25, 24, 6, 1500000, 3000000, 2))
    @@ (PC :> Stump(25, 22, 0, 4, 0, 2))

RefBundle == MkBundle(RefModels, FeatureCols3, <<PA, PB, PC>>, Encoders, Names3)

\* the bundles that pass _validate
ValidBundleIds == {"ref", "dup", "extra", "noenc", "shape", "noname", "narrow"}
\* the bundles that break one or several rules of _validate
InvalidBundleIds == {"empty_dict", "no_target", "no_models", "empty_models",
                     "empty_models_pc", "extra_model", "missing_model",
                     "empty_enc", "all_bad"}
BundleIds == ValidBundleIds \cup InvalidBundleIds

BundleOf(id) ==
    CASE id = "ref" -> RefBundle
      [] id = "dup" ->
            \* product_cols names one product twice; set(product_cols) still
            \* equals the classifier keys
            MkBundle((PA :> Stump(24, 23, 11, 14, 2000000, 2))
                     @@ (PB :> Stump(24, 24, 3, 2000000, 2000000, 2)),
                     FeatureCols2, <<PA, PB, PA>>, Encoders, Names3)
      [] id = "extra" ->
            \* one classifier trained on a single class; months_since_start is
            \* column 24 here
            MkBundle((PA :> Stump(25, 24, 140, 6, 16, 2))
                     @@ (PB :> Stump(25, 25, 0, 0, 0, 2))
                     @@ (PC :> Stump(25, 21, 1, 9999996, 5000000, 1)),
                     FeatureColsExtra, <<PC, PB, PA>>, Encoders, Names3)
      [] id = "noenc" ->
            \* label_encoders is non-empty but has no encoder for most fields
            MkBundle(RefModels, FeatureCols3, <<PA, PB, PC>>,
                     [sexo |-> <<"H", "V", "nan">>], Names3)
      [] id = "shape" ->
            \* the classifier of PB was trained on another number of columns
            MkBundle((PA :> Stump(25, 1, 0, 3000000, 3000000, 2))
                     @@ (PB :> Stump(44, 24, 6, 1500000, 3000000, 2))
                     @@ (PC :> Stump(25, 22, 0, 4, 0, 2)),
                     FeatureCols3, <<PA, PB, PC>>, Encoders, Names3)
      [] id = "noname" ->
            \* product_names maps a product to the empty string
            MkBundle(RefModels, FeatureCols3, <<PA, PB, PC>>, Encoders,
                     Names3 @@ (PC :> ""))
      [] id = "narrow" ->
            \* whitelists shorter than the vocabularies of the encoders, and a
            \* province encoder that saw neither "OTHER" nor "nan"
            [RefBundle EXCEPT !["top20_canal"] = <<"KHE">>,
                              !["top20_prov"] = <<"MADRID">>,
                              !["label_encoders"] =
                                  [Encoders EXCEPT !["nomprov"] =
                                      <<"BARCELONA", "MADRID">>]]
      [] id = "empty_dict" -> Without(RefBundle, EXPECTED_KEYS)
      [] id = "no_target" -> Without(RefBundle, {"target_cols"})
      [] id = "no_models" -> Without(RefBundle, {"models"})
      [] id = "empty_models" ->
            MkBundle(<<>>, FeatureCols3, <<>>, Encoders, Names3)
      [] id = "empty_models_pc" ->
            MkBundle(<<>>, FeatureCols3, <<PA>>, Encoders, Names3)
      [] id = "extra_model" ->
            MkBundle(RefModels, FeatureCols3, <<PA, PB>>, Encoders, Names3)
      [] id = "missing_model" ->
            MkBundle((PA :> Stump(25, 1, 0, 3000000, 3000000, 2)),
                     FeatureCols3, <<PA, PB>>, Encoders, Names3)
      [] id = "empty_enc" ->
            MkBundle(RefModels, FeatureCols3, <<PA, PB, PC>>, <<>>, Names3)
      [] id = "all_bad" ->
            Without(MkBundle(<<>>, FeatureCols3, <<PA>>, <<>>, Names3),
                    {"target_cols", "top20_prov"})

\* what joblib.load returns for each model.bin of the model
Bundles == [id \in BundleIds |-> BundleOf(id)]

Bundle(id) == Bundles[id]

\* ---------------------------------------------------------------------------
\* store.py: ModelStore
\* ---------------------------------------------------------------------------
NoArtifact == "None"

\* ModelStore.__init__
NewStore == [exists |-> TRUE, artifact |-> NoArtifact, loaded |-> FALSE]
\* the module global _store before lifespan assigns it
NoStore == [exists |-> FALSE, artifact |-> NoArtifact, loaded |-> FALSE]

\* a faulty variant of validate: the first violation found is raised at once
validate_fail_fast(artifact) ==
    LET keys == DOMAIN artifact
    IN  IF EXPECTED_KEYS \ keys # {}
        THEN <<[rule |-> "missing_keys", keys |-> EXPECTED_KEYS \ keys]>>
        ELSE IF DOMAIN artifact["models"] = {}
        THEN <<[rule |-> "models_empty"]>>
        ELSE IF DOMAIN artifact["models"] # Range(artifact["product_cols"])
        THEN <<[rule |-> "mismatch",
                only_models |-> DOMAIN artifact["models"] \ Range(artifact["product_cols"]),
                only_products |-> Range(artifact["product_cols"]) \ DOMAIN artifact["models"]]>>
        ELSE IF DOMAIN artifact["label_encoders"] = {}
        THEN <<[rule |-> "encoders_empty"]>>
        ELSE <<>>

\* a faulty variant of validate: only the classifiers without a product are
\* looked for, not the products without a classifier
validate_one_direction(artifact) ==
    LET keys == DOMAIN artifact
        e1 == IF EXPECTED_KEYS \ keys # {}
              THEN <<[rule |-> "missing_keys", keys |-> EXPECTED_KEYS \ keys]>>
              ELSE <<>>
        e2 == IF "models" \in keys /\ DOMAIN artifact["models"] = {}
              THEN <<[rule |-> "models_empty"]>>
              ELSE <<>>
        e3 == IF /\ "models" \in keys /\ "product_cols" \in keys
                 /\ DOMAIN artifact["models"] \ Range(artifact["product_cols"]) # {}
              THEN <<[rule |-> "mismatch",
                      only_models |->
                          DOMAIN artifact["models"] \ Range(artifact["product_cols"]),
                      only_products |-> {}]>>
              ELSE <<>>
        e4 == IF "label_encoders" \in keys /\ DOMAIN artifact["label_encoders"] = {}
              THEN <<[rule |-> "encoders_empty"]>>
              ELSE <<>>
    IN  e1 \o e2 \o e3 \o e4

\* ModelStore._validate: the list of violations, in the order the code appends
\* them; the ValueError is raised iff the list is non-empty
validate(artifact) ==
    LET keys == DOMAIN artifact
        missing_keys == EXPECTED_KEYS \ keys
        e1 == IF missing_keys # {}
              THEN <<[rule |-> "missing_keys", keys |-> missing_keys]>>
              ELSE <<>>
        e2 == IF "models" \in keys /\ DOMAIN artifact["models"] = {}
              THEN <<[rule |-> "models_empty"]>>
              ELSE <<>>
        e3 == IF "models" \in keys /\ "product_cols" \in keys
              THEN LET model_keys == DOMAIN artifact["models"]
                       product_set == Range(artifact["product_cols"])
                   IN  IF model_keys # product_set
                       THEN <<[rule |-> "mismatch",
                               only_models |-> model_keys \ product_set,
                               only_products |-> product_set \ model_keys]>>
                       ELSE <<>>
              ELSE <<>>
        e4 == IF "label_encoders" \in keys /\ DOMAIN artifact["label_encoders"] = {}
              THEN <<[rule |-> "encoders_empty"]>>
              ELSE <<>>
    IN  e1 \o e2 \o e3 \o e4

\* ModelStore.is_loaded
is_loaded(s) == s.loaded

\* ModelStore.load_model, line 44: self._artifact = joblib.load(model_path)
load_assign(s, id) == [s EXCEPT !.artifact = id]

\* ModelStore.load_model, lines 45-46: self._validate(); self._loaded = True
load_finish(s) ==
    IF validate(Bundle(s.artifact)) = <<>> THEN [s EXCEPT !.loaded = TRUE] ELSE s

\* the property accessors of ModelStore
artifact_of(s) == Bundle(s.artifact)

\* ---------------------------------------------------------------------------
\* predictor.py: defaults
\* ---------------------------------------------------------------------------
DEFAULT_RENTA == 101850
DEFAULT_AGE == 40
DEFAULT_ANTIGUEDAD == 70
ANTIGUEDAD_SENTINEL == -999999
DATASET_START_YEAR == 2015
DATASET_START_MONTH == 2

\* a faulty variant of default_renta: the segment is not looked at
default_renta_global(seg) == DEFAULT_RENTA

\* DEFAULT_RENTA_BY_SEGMENT.get(seg, DEFAULT_RENTA); seg is Optional[str]
default_renta(seg) ==
    IF seg = Some("01 - TOP") THEN 234340
    ELSE IF seg = Some("02 - PARTICULARES") THEN 101340
    ELSE IF seg = Some("03 - UNIVERSITARIO") THEN 86200
    ELSE DEFAULT_RENTA

\* float(np.log1p(renta)) in 1e-6 units, rounded down, for the incomes of the model
log1p(renta) ==
    CASE renta = 234340 -> 12364532
      [] renta = 101340 -> 11526246
      [] renta = 86200 -> 11364437
      [] renta = 101850 -> 11531266
      [] renta = 150000 -> 11918397
      [] renta = 50000 -> 10819798
      [] renta = 1 -> 693147

\* ---------------------------------------------------------------------------
\* predictor.py: _safe_label_encode
\* ---------------------------------------------------------------------------
\* LabelEncoder.transform([value])[0]: the position of value in classes_,
\* counted from 0; a value outside classes_ raises ValueError
IndexOf(classes, value) ==
    (CHOOSE i \in 1..Len(classes) : classes[i] = value) - 1

\* encoder.transform([value])[0]: {} when it raises ValueError, else {code}
transform(classes, value) ==
    IF value \in Range(classes) THEN {IndexOf(classes, value)} ELSE {}

\* a faulty variant of safe_label_encode: the ValueError of transform is not caught
safe_label_encode_unguarded(encoder, value) == transform(encoder, value)

\* lines 50-62: {code}, or {} when an exception leaves the function
safe_label_encode(encoder, value) ==
    LET code == transform(encoder, value)
    IN  IF code # {} THEN code
        ELSE IF "nan" \in Range(encoder) THEN transform(encoder, "nan")
        ELSE {0}

\* ---------------------------------------------------------------------------
\* datetime.strptime(s, "%Y-%m-%d") on a string given as its characters:
\* {} when it raises ValueError, {<<year, month, day>>} otherwise
\* ---------------------------------------------------------------------------
DigitChars == <<"0", "1", "2", "3", "4", "5", "6", "7", "8", "9">>

IsDigit(ch) == ch \in Range(DigitChars)
DigitValue(ch) == IndexOf(DigitChars, ch)
AllDigits(s) == \A i \in 1..Len(s) : IsDigit(s[i])

RECURSIVE Number(_)
Number(s) ==
    IF s = <<>> THEN 0
    ELSE 10 * Number(SubSeq(s, 1, Len(s) - 1)) + DigitValue(s[Len(s)])

IsLeap(y) == (y % 4 = 0 /\ y % 100 # 0) \/ y % 400 = 0

DaysInMonth(y, m) ==
    IF m = 2 THEN (IF IsLeap(y) THEN 29 ELSE 28)
    ELSE IF m \in {4, 6, 9, 11} THEN 30
    ELSE 31

strptime(s) ==
    LET n == Len(s)
        \* %Y is exactly four digits, then "-"; %m is one or two digits
        p == IF n >= 7 /\ s[7] = "-" THEN 7 ELSE 8
        ys == SubSeq(s, 1, 4)
        ms == SubSeq(s, 6, p - 1)
        ds0 == SubSeq(s, p + 1, n)
        \* %d also accepts a day padded with one space
        ds == IF Len(ds0) = 2 /\ ds0[1] = " " THEN Tail(ds0) ELSE ds0
        shape == /\ n >= 8 /\ n <= 10
                 /\ s[5] = "-"
                 /\ p <= n /\ s[p] = "-"
                 /\ AllDigits(ys)
                 /\ Len(ms) \in {1, 2} /\ AllDigits(ms)
                 /\ Len(ds) \in {1, 2} /\ AllDigits(ds)
    IN  IF ~shape THEN {}
        ELSE LET y == Number(ys)
                 m == Number(ms)
                 d == Number(ds)
             IN  IF /\ y >= 1
                    /\ m \in 1..12
                    /\ d >= 1 /\ d <= DaysInMonth(y, m)
                 THEN {<<y, m, d>>}
                 ELSE {}

\* ---------------------------------------------------------------------------
\* predictor.py: BankPredictor._preprocess
\* ---------------------------------------------------------------------------
Min(a, b) == IF a <= b THEN a ELSE b
Max(a, b) == IF a >= b THEN a ELSE b

\* dict.get(key, default)
Get(d, key, default) == IF key \in DOMAIN d THEN d[key] ELSE default

\* lines 144-153: the eight low-cardinality fields, in the order of the dict
low_card_fields == <<"sexo", "ind_empleado", "tiprel_1mes", "indresi", "indext",
                     "indfall", "segmento", "indrel_1mes">>

\* the encoders _preprocess looks up; a missing one raises KeyError
needed_encoders == Range(low_card_fields) \cup {"canal_entrada", "nomprov"}

\* a faulty variant of whitelisted: only an absent value becomes "OTHER"
whitelisted_if_present(raw, whitelist) == IF raw # None THEN Val(raw) ELSE "OTHER"

\* lines 161-165 and 175-179: the raw value if whitelisted, else "OTHER"
whitelisted(raw, whitelist) ==
    IF raw # None /\ Val(raw) \in Range(whitelist) THEN Val(raw) ELSE "OTHER"

\* lines 155-156, 161-165 and 175-179: the string handed to the encoder of a field
encoder_input(art, c, field) ==
    IF field = "canal_entrada" THEN whitelisted(c.canal_entrada, art["top20_canal"])
    ELSE IF field = "nomprov" THEN whitelisted(c.nomprov, art["top20_prov"])
    ELSE IF c[field] # None THEN Val(c[field]) ELSE "nan"

\* lines 154-182: what _safe_label_encode gives for every encoded field
encoded(art, c) ==
    [field \in needed_encoders |->
        safe_label_encode(art["label_encoders"][field], encoder_input(art, c, field))]

\* a faulty variant of observation_date: the date of the request is ignored
observation_date_ignored(fecha_dato, clock) == clock

\* lines 198-204: the date the temporal features are computed from, as
\* <<year, month>>; clock is datetime.now()
observation_date(fecha_dato, clock) ==
    IF fecha_dato # None /\ Val(fecha_dato) # <<>>
    THEN LET dt == strptime(Val(fecha_dato))
         IN  IF dt # {} THEN <<Val(dt)[1], Val(dt)[2]>> ELSE clock
    ELSE clock

\* a faulty variant of months_since_start: the difference is not clamped
months_since_start_unclamped(dt) ==
    (dt[1] - DATASET_START_YEAR) * 12 + (dt[2] - DATASET_START_MONTH)

\* lines 207-208
months_since_start(dt) ==
    Max(0, (dt[1] - DATASET_START_YEAR) * 12 + (dt[2] - DATASET_START_MONTH))

\* lines 185-191: the coerced flag of one product
prev_flag(prev_products, col) ==
    IF Get(prev_products, col, 0) # 0 THEN 1 ELSE 0

\* lines 186-191: n_products accumulates the flag of every entry of product_cols
RECURSIVE sum_flags(_, _)
sum_flags(prev_products, cols) ==
    IF cols = <<>> THEN 0
    ELSE prev_flag(prev_products, Head(cols)) + sum_flags(prev_products, Tail(cols))

\* lines 108-110: the income that goes into log1p
renta_of(c) ==
    IF c.renta = None \/ Val(c.renta) <= 0
    THEN default_renta(c.segmento)
    ELSE Val(c.renta)

\* lines 98-208: the dict features
features_of(art, c, clock) ==
    LET numeric ==
            [age |-> IF c.age # None THEN Max(18, Min(100, Val(c.age)))
                     ELSE DEFAULT_AGE,
             log_renta |-> log1p(renta_of(c)),
             antiguedad |-> IF c.antiguedad = None
                               \/ Val(c.antiguedad) = ANTIGUEDAD_SENTINEL
                            THEN DEFAULT_ANTIGUEDAD
                            ELSE Val(c.antiguedad),
             ind_nuevo |-> IF c.ind_nuevo # None THEN Val(c.ind_nuevo) ELSE 0,
             indrel |-> IF c.indrel # None THEN Val(c.indrel) ELSE 1,
             ind_actividad_cliente |->
                 IF c.ind_actividad_cliente # None
                 THEN Val(c.ind_actividad_cliente) ELSE 1,
             cod_prov |-> IF c.cod_prov # None THEN Val(c.cod_prov) ELSE 28]
        low_card ==
            [name \in {f \o "_enc" : f \in Range(low_card_fields)} |->
                LET f == CHOOSE g \in Range(low_card_fields) : g \o "_enc" = name
                IN  Val(encoded(art, c)[f])]
        high_card ==
            [canal_entrada_enc |-> Val(encoded(art, c)["canal_entrada"]),
             pais_residencia_enc |-> IF c.pais_residencia = Some("ES") THEN 1 ELSE 0,
             nomprov_enc |-> Val(encoded(art, c)["nomprov"])]
        prev ==
            [name \in {"prev_" \o col : col \in Range(art["product_cols"])} |->
                LET col == CHOOSE x \in Range(art["product_cols"]) : "prev_" \o x = name
                IN  prev_flag(c.prev_products, col)]
        dt == observation_date(c.fecha_dato, clock)
        tail ==
            [n_products |-> sum_flags(c.prev_products, art["product_cols"]),
             product_changes |-> IF c.product_changes # None
                                 THEN Val(c.product_changes) ELSE 0,
             month |-> dt[2],
             months_since_start |-> months_since_start(dt)]
    IN  \* later assignments to the same key overwrite earlier ones
        tail @@ prev @@ high_card @@ low_card @@ numeric

\* a faulty variant of assemble: the columns of the reference artifact are
\* used whatever feature_cols says
assemble_fixed_columns(feature_cols, features) ==
    [i \in 1..Len(FeatureCols3) |-> Get(features, FeatureCols3[i], 0)]

\* lines 210-214: the row, in the order of feature_cols
assemble(feature_cols, features) ==
    [i \in 1..Len(feature_cols) |-> Get(features, feature_cols[i], 0)]

\* _preprocess: [exc |-> "none", X |-> the feature vector], or the exception raised
preprocess(art, c, clock) ==
    IF ~(needed_encoders \subseteq DOMAIN art["label_encoders"])
    THEN [exc |-> "KeyError", X |-> <<>>]
    ELSE IF \E field \in needed_encoders : encoded(art, c)[field] = {}
    THEN [exc |-> "ValueError", X |-> <<>>]
    ELSE [exc |-> "none", X |-> assemble(art["feature_cols"], features_of(art, c, clock))]

\* ---------------------------------------------------------------------------
\* predictor.py: BankPredictor.predict
\* ---------------------------------------------------------------------------
\* model.predict_proba(X)[0]: {} when the classifier raises (the width of X is
\* not the width it was trained on), else the class probabilities
predict_proba(clf, X) ==
    IF Len(X) # clf.n_features THEN {}
    ELSE LET p == IF X[clf.feat] <= clf.thr THEN clf.lo ELSE clf.hi
         IN  IF clf.n_classes > 1 THEN {<<Scale - p, p>>} ELSE {<<p>>}

\* line 244
positive_class(prob) == IF Len(prob) > 1 THEN prob[2] ELSE prob[1]

\* the keys of the dict probabilities in insertion order: the entries of
\* product_cols, each at the place of its first occurrence
RECURSIVE dict_keys(_)
dict_keys(cols) ==
    IF cols = <<>> THEN <<>>
    ELSE LET rest == dict_keys(SubSeq(cols, 1, Len(cols) - 1))
             x == cols[Len(cols)]
         IN  IF x \in Range(rest) THEN rest ELSE Append(rest, x)

\* lines 239-246: the probability of every product
score(models, product_cols, X) ==
    [col \in Range(product_cols) |-> positive_class(Val(predict_proba(models[col], X)))]

\* a faulty variant of exclude_owned: the exclusion step is left out
exclude_owned_skipped(probabilities, prev_products) == probabilities

\* lines 249-252: the probability of a product the client owns becomes 0.0
exclude_owned(probabilities, prev_products) ==
    [col \in DOMAIN probabilities |->
        IF Get(prev_products, col, 0) = 1 THEN 0 ELSE probabilities[col]]

\* a faulty variant of insert_desc: an entry moves ahead of the entries of
\* equal probability that came before it
RECURSIVE insert_desc_unstable(_, _, _)
insert_desc_unstable(sorted, col, probabilities) ==
    IF sorted = <<>> THEN <<col>>
    ELSE IF probabilities[sorted[Len(sorted)]] > probabilities[col]
         THEN Append(sorted, col)
         ELSE Append(insert_desc_unstable(SubSeq(sorted, 1, Len(sorted) - 1), col,
                                          probabilities),
                     sorted[Len(sorted)])

\* line 255: sorted(..., key=prob, reverse=True) is stable: equal probabilities
\* keep the order of the dict
RECURSIVE insert_desc(_, _, _)
insert_desc(sorted, col, probabilities) ==
    IF sorted = <<>> THEN <<col>>
    ELSE IF probabilities[sorted[Len(sorted)]] >= probabilities[col]
         THEN Append(sorted, col)
         ELSE Append(insert_desc(SubSeq(sorted, 1, Len(sorted) - 1), col,
                                 probabilities),
                     sorted[Len(sorted)])

\* a faulty variant of sort_desc: the dict is sliced in its own order
sort_desc_skipped(keys, probabilities) == keys

RECURSIVE sort_desc(_, _)
sort_desc(keys, probabilities) ==
    IF keys = <<>> THEN <<>>
    ELSE insert_desc(sort_desc(SubSeq(keys, 1, Len(keys) - 1), probabilities),
                     keys[Len(keys)], probabilities)

\* a faulty variant of top: the slice is one entry too long
top_one_more(sorted, top_k) == SubSeq(sorted, 1, Min(top_k + 1, Len(sorted)))

\* line 259: sorted_products[:top_k]
top(sorted, top_k) == SubSeq(sorted, 1, Min(top_k, Len(sorted)))

\* line 265: round(prob, 6), on 1e-7 units; an exact half goes to the even digit
round6(prob) ==
    LET q == prob \div 10
        r == prob % 10
    IN  IF r < 5 THEN 10 * q
        ELSE IF r > 5 THEN 10 * (q + 1)
        ELSE IF q % 2 = 0 THEN 10 * q ELSE 10 * (q + 1)

\* lines 258-267: the entries of the slice with a probability > 0
RECURSIVE recommend(_, _, _)
recommend(cols, probabilities, product_names) ==
    IF cols = <<>> THEN <<>>
    ELSE LET col == Head(cols)
             rest == recommend(Tail(cols), probabilities, product_names)
         IN  IF probabilities[col] > 0
             THEN <<[product_col |-> col,
                     product_name |-> Get(product_names, col, col),
                     probability |-> round6(probabilities[col])]>> \o rest
             ELSE rest

\* a faulty variant of count_owned: every non-zero flag counts, as in the feature builder
count_owned_truthy(prev_products, cols) == sum_flags(prev_products, cols)

\* a faulty variant of count_owned: every entry of the mapping flagged 1 counts,
\* whether or not product_cols names it
count_owned_any_key(prev_products, cols) ==
    Cardinality({k \in DOMAIN prev_products : prev_products[k] = 1})

\* line 269
RECURSIVE count_owned(_, _)
count_owned(prev_products, cols) ==
    IF cols = <<>> THEN 0
    ELSE (IF Get(prev_products, Head(cols), 0) = 1 THEN 1 ELSE 0)
         + count_owned(prev_products, Tail(cols))

NoResult == [recommendations |-> <<>>, n_current_products |-> 0]

\* the accessors predict and _preprocess read (self._store.models, ...): a key
\* the artifact does not have raises KeyError
read_keys == {"models", "product_cols", "product_names", "feature_cols",
              "label_encoders", "top20_canal", "top20_prov"}

\* lines 238-252: the probabilities, the owned products at 0.0
probabilities_of(art, c, X) ==
    exclude_owned(score(art["models"], art["product_cols"], X), c.prev_products)

\* lines 255-288: the dict predict returns
result_of(art, c, probabilities) ==
    LET sorted_products == sort_desc(dict_keys(art["product_cols"]), probabilities)
    IN  [recommendations |->
             recommend(top(sorted_products, c.top_k), probabilities,
                       art["product_names"]),
         n_current_products |-> count_owned(c.prev_products, art["product_cols"])]

\* a classifier raises on X (line 241)
scoring_raises(art, X) ==
    \E col \in Range(art["product_cols"]) : predict_proba(art["models"][col], X) = {}

\* predict: [exc |-> "none", result |-> the dict returned], or the exception
\* that leaves the function (after PREDICTION_ERRORS.inc())
predict(art, c, clock) ==
    IF ~(read_keys \subseteq DOMAIN art) THEN [exc |-> "KeyError", result |-> NoResult]
    ELSE
    LET pre == preprocess(art, c, clock)
    IN  IF pre.exc # "none" THEN [exc |-> pre.exc, result |-> NoResult]
        ELSE IF ~(Range(art["product_cols"]) \subseteq DOMAIN art["models"])
        THEN [exc |-> "KeyError", result |-> NoResult]
        ELSE IF scoring_raises(art, pre.X)
        THEN [exc |-> "ValueError", result |-> NoResult]
        ELSE [exc |-> "none",
              result |-> result_of(art, c, probabilities_of(art, c, pre.X))]

\* ---------------------------------------------------------------------------
\* schemas.py: the requests the validation layer lets through
\* ---------------------------------------------------------------------------
\* test_predict_minimal: only the required fields; the schema's defaults
MinimalClient ==
    [age |-> Some(35), renta |-> None, antiguedad |-> None, sexo |-> None,
     segmento |-> None, canal_entrada |-> None, pais_residencia |-> None,
     nomprov |-> None, ind_empleado |-> None, tiprel_1mes |-> None,
     indresi |-> None, indext |-> None, indfall |-> None, indrel_1mes |-> None,
     ind_nuevo |-> None, indrel |-> None, ind_actividad_cliente |-> None,
     cod_prov |-> None, prev_products |-> <<>>, product_changes |-> Some(0),
     fecha_dato |-> None, top_k |-> 7]

\* test_predict_full
FullClient ==
    [age |-> Some(45), renta |-> Some(150000), antiguedad |-> Some(120),
     sexo |-> Some("H"), segmento |-> Some("02 - PARTICULARES"),
     canal_entrada |-> Some("KHE"), pais_residencia |-> Some("ES"),
     nomprov |-> Some("MADRID"), ind_empleado |-> Some("N"),
     tiprel_1mes |-> Some("A"), indresi |-> Some("S"), indext |-> Some("N"),
     indfall |-> Some("N"), indrel_1mes |-> Some("1"), ind_nuevo |-> Some(0),
     indrel |-> Some(1), ind_actividad_cliente |-> Some(1), cod_prov |-> Some(28),
     prev_products |-> (PA :> 1) @@ (PB :> 1), product_changes |-> Some(0),
     fecha_dato |-> Some(<<"2", "0", "1", "6", "-", "0", "5", "-", "2", "8">>),
     top_k |-> 7]

\* test_predict_unknown_categories
UnknownClient ==
    [MinimalClient EXCEPT !.age = Some(28), !.sexo = Some("X"),
                          !.canal_entrada = Some("UNKNOWN_CHANNEL"),
                          !.nomprov = Some("UNKNOWN_PROVINCE"),
                          !.pais_residencia = Some("FR"),
                          !.segmento = Some("UNKNOWN"),
                          !.ind_empleado = Some("Z"),
                          !.prev_products = (PA :> 1)]

PrevMaps ==
    {<<>>,
     (PA :> 1),
     (PA :> 1) @@ (PB :> 1),
     (PA :> 2) @@ (PC :> 0),
     (PA :> 1) @@ (PB :> 1) @@ (PC :> 1),
     (PB :> 1) @@ ("ind_nomina_ult1" :> 1)}

TopKs == {1, 2, 3, 7}

Dates ==
    {None,
     Some(<<"2", "0", "1", "6", "-", "0", "5", "-", "2", "8">>),
     Some(<<"n", "o", "t", "-", "a", "-", "d", "a", "t", "e">>)}

Clients ==
    {[MinimalClient EXCEPT !.prev_products = pm, !.top_k = k, !.fecha_dato = d] :
        pm \in PrevMaps, k \in TopKs, d \in Dates}
    \cup {FullClient, UnknownClient}

\* a smaller set of requests, for the runs that keep more than one request
\* in the state
SomeClients ==
    {[MinimalClient EXCEPT !.prev_products = pm, !.top_k = k, !.fecha_dato = d] :
        pm \in {<<>>, (PA :> 1)}, k \in {1, 3}, d \in Dates}

\* ClientFeatures: age is required, ge=0, le=150; top_k has ge=1, le=22
schema_valid(c) ==
    /\ c.age # None /\ Val(c.age) >= 0 /\ Val(c.age) <= 150
    /\ c.top_k >= 1 /\ c.top_k <= 22

\* test_predict_validation_errors: bodies the schema refuses
InvalidRequests ==
    {[MinimalClient EXCEPT !.top_k = 0], [MinimalClient EXCEPT !.top_k = 30],
     [MinimalClient EXCEPT !.top_k = 23], [MinimalClient EXCEPT !.age = Some(-5)],
     [MinimalClient EXCEPT !.age = Some(200)], [MinimalClient EXCEPT !.age = None]}

\* PredictionResponse(**result): the response schema (lines 58-77 of schemas.py)
response_valid(result) ==
    /\ Len(result.recommendations) <= 22
    /\ \A i \in 1..Len(result.recommendations) :
          /\ Len(result.recommendations[i].product_name) >= 1
          /\ result.recommendations[i].probability >= 0
          /\ result.recommendations[i].probability <= Scale
    /\ result.n_current_products >= 0

\* ---------------------------------------------------------------------------
\* The wall clock: datetime.now() moves on between requests
\* ---------------------------------------------------------------------------
StartClock == <<2026, 11>>

Elapsed(clock) == (clock[1] - StartClock[1]) * 12 + (clock[2] - StartClock[2])

NextMonth(clock) ==
    IF clock[2] = 12 THEN <<clock[1] + 1, 1>> ELSE <<clock[1], clock[2] + 1>>

RECURSIVE ClockAfter(_)
ClockAfter(ticks) == IF ticks = 0 THEN StartClock ELSE NextMonth(ClockAfter(ticks - 1))

Tick ==
    /\ Elapsed(now) < MaxTicks
    /\ now' = NextMonth(now)
    /\ UNCHANGED <<threads, call, phase, store, predictor, loadpc, loadResult, loadErrors, last,
                   memo, predErrors>>

\* predictor.predict for every artifact, clock and request of the model,
\* evaluated once
predict_all ==
    [id \in BundleIds |->
        [ticks \in 0..MaxTicks |->
            [c \in Clients |-> predict(Bundle(id), c, ClockAfter(ticks))]]]

\* ---------------------------------------------------------------------------
\* main.py (and api/routes.py, which repeats them): the request handlers
\* ---------------------------------------------------------------------------
\* a faulty variant of not_ready: only the presence of the store is checked
not_ready_store_only(s) == ~s.exists

\* `store is None or not store.is_loaded()`
not_ready(s) == ~s.exists \/ ~is_loaded(s)

\* no function has been called on its own
NoCall == [fn |-> "none", done |-> FALSE]

\* predict runs in the worker threads of the server (a handler declared with
\* def): the local variables of one call
Threads == {1, 2}

IdleThread ==
    [pc |-> "idle", client |-> MinimalClient, clock |-> <<0, 0>>, X |-> <<>>,
     probabilities |-> <<>>, out |-> [exc |-> "none", result |-> NoResult],
     mixed |-> FALSE]

NoRequest ==
    [endpoint |-> "none", status |-> 0, client |-> MinimalClient, body |-> NoResult,
     clock |-> <<0, 0>>, ready |-> FALSE, predict_called |-> FALSE,
     accessor_read |-> FALSE]

Answer(endpoint, status, c, body, called, read) ==
    [endpoint |-> endpoint, status |-> status, client |-> c, body |-> body,
     clock |-> now, ready |-> store.exists /\ store.loaded,
     predict_called |-> called, accessor_read |-> read]

\* a faulty variant of errors_after: the except clause does not count
errors_after_uncounted(exc, n) == n

\* predictor.py, lines 290-292: PREDICTION_ERRORS after predict has ended with
\* exc; n is its value before
errors_after(exc, n) == IF exc # "none" THEN n + 1 ELSE n

\* the body of an HTTP 422: a request the schema refuses, or the
\* HTTPException of the handler with the text of the exception
ValidationError == [kind |-> "validation"]
PredictionFailure(exc) == [kind |-> "prediction", cause |-> exc]

\* POST /predict, the body of the handler
HandlePredict(c) ==
    /\ IF not_ready(store)
       THEN /\ last' = Answer("predict", 503, c, NoResult, FALSE, FALSE)
            /\ UNCHANGED predErrors
       ELSE IF predictor = "None"
       THEN \* None has no attribute predict: AttributeError, outside predict
            /\ last' = Answer("predict", 422, c, PredictionFailure("AttributeError"),
                              FALSE, FALSE)
            /\ UNCHANGED predErrors
       ELSE LET r == IF store.artifact = NoArtifact
                     THEN \* the accessors subscript None: TypeError
                          [exc |-> "TypeError", result |-> NoResult]
                     ELSE predict_all[store.artifact][Elapsed(now)][c]
            IN  /\ r.exc # "none" => predErrors < MaxErrors
                /\ predErrors' = errors_after(r.exc, predErrors)
                /\ last' = IF r.exc # "none"
                           THEN Answer("predict", 422, c, PredictionFailure(r.exc),
                                       TRUE, TRUE)
                           \* body is what predictor.predict returned; when it
                           \* does not fit PredictionResponse the caller gets a 500
                           ELSE Answer("predict",
                                       IF response_valid(r.result) THEN 200 ELSE 500,
                                       c, r.result, TRUE, TRUE)
    /\ UNCHANGED <<threads, call, phase, store, predictor, loadpc, loadResult, loadErrors, now,
                   memo>>

\* POST /predict with a body ClientFeatures refuses: FastAPI answers 422 and
\* the handler is not called
RejectInvalid(c) ==
    /\ last' = Answer("predict", 422, c, ValidationError, FALSE, FALSE)
    /\ UNCHANGED <<threads, call, phase, store, predictor, loadpc, loadResult, loadErrors, now,
                   memo, predErrors>>

\* POST /predict
PostPredict(c) == IF schema_valid(c) THEN HandlePredict(c) ELSE RejectInvalid(c)

\* ModelStore.get_stats
get_stats(s) ==
    IF ~s.loaded THEN [n_models |-> 0, n_features |-> 0, n_products |-> 0]
    ELSE [n_models |-> Cardinality(DOMAIN artifact_of(s)["models"]),
          n_features |-> Len(artifact_of(s)["feature_cols"]),
          n_products |-> Len(artifact_of(s)["product_cols"])]

\* GET /health
HandleHealth ==
    /\ IF not_ready(store)
       THEN last' = Answer("health", 503, MinimalClient, NoResult, FALSE, FALSE)
       ELSE last' = Answer("health", 200, MinimalClient,
                           [status |-> "healthy", model_loaded |-> TRUE,
                            stats |-> get_stats(store)],
                           FALSE, store.loaded)
    /\ UNCHANGED <<threads, call, phase, store, predictor, loadpc, loadResult, loadErrors, now, memo,
                   predErrors>>

\* GET /model/info
HandleModelInfo ==
    /\ IF not_ready(store)
       THEN last' = Answer("info", 503, MinimalClient, NoResult, FALSE, FALSE)
       ELSE IF store.artifact = NoArtifact
                  \/ ~({"models", "feature_cols", "product_cols", "product_names"}
                          \subseteq DOMAIN artifact_of(store))
       THEN \* store.n_models subscripts None (TypeError) or a key is missing
            \* (KeyError): an unhandled 500
            last' = Answer("info", 500, MinimalClient, NoResult, FALSE, TRUE)
       ELSE last' = Answer("info", 200, MinimalClient,
                           [n_models |-> Cardinality(DOMAIN artifact_of(store)["models"]),
                            feature_cols |-> artifact_of(store)["feature_cols"],
                            product_cols |-> artifact_of(store)["product_cols"],
                            product_names |-> artifact_of(store)["product_names"]],
                           FALSE, TRUE)
    /\ UNCHANGED <<threads, call, phase, store, predictor, loadpc, loadResult, loadErrors, now, memo,
                   predErrors>>

\* ---------------------------------------------------------------------------
\* main.py: lifespan (the startup of the process)
\* ---------------------------------------------------------------------------
\* the values of the environment variable DEFAULT_TOP_K
EnvTopK == {"unset", "7", "0", "23", "seven"}

\* lines 52-59: int(os.getenv("DEFAULT_TOP_K", "7")) within ServiceConfig's 1..22
config_ok(env) == env \in {"unset", "7"}

\* a faulty variant of after_load: the failure is logged and not raised again
after_load_swallowed(result) == "serving"

\* lines 71-75: a failed load is logged and raised again; a successful one
\* reaches the yield
after_load(result) == IF result = "ok" THEN "serving" ELSE "aborted"

\* lines 49-62: the configuration, then _store = ModelStore()
LifespanEnter ==
    /\ phase = "init"
    /\ \E env \in EnvTopK :
          IF config_ok(env)
          THEN /\ phase' = "loading"
               /\ store' = NewStore
          ELSE /\ phase' = "aborted"
               /\ UNCHANGED store
    /\ UNCHANGED <<threads, call, predictor, loadpc, loadResult, loadErrors, now, last, memo,
                   predErrors>>

\* line 63, first half: load_model runs joblib.load
LifespanRead ==
    /\ phase = "loading"
    /\ loadpc = "idle"
    /\ \/ \* the file is not there: FileNotFoundError
          /\ loadResult' = "FileNotFoundError"
          /\ loadErrors' = <<>>
          /\ phase' = after_load("FileNotFoundError")
          /\ UNCHANGED <<store, loadpc>>
       \/ \E id \in BundleIds :
             /\ store' = load_assign(store, id)
             /\ loadpc' = "validate"
             /\ UNCHANGED <<phase, loadResult, loadErrors>>
    /\ UNCHANGED <<threads, call, predictor, now, last, memo, predErrors>>

\* line 63, second half, and line 64: _validate, _loaded = True, the predictor
LifespanValidate ==
    /\ phase = "loading"
    /\ loadpc = "validate"
    /\ LET errors == validate(artifact_of(store))
           result == IF errors = <<>> THEN "ok" ELSE "ValueError"
       IN  /\ store' = load_finish(store)
           /\ loadErrors' = errors
           /\ loadResult' = result
           /\ phase' = after_load(result)
           /\ predictor' = IF result = "ok" THEN "bound" ELSE predictor
    /\ loadpc' = "idle"
    /\ UNCHANGED <<threads, call, now, last, memo, predErrors>>

\* a request reaches a handler
Request ==
    \/ \E c \in Clients \cup InvalidRequests : PostPredict(c)
    \/ HandleHealth
    \/ HandleModelInfo

\* uvicorn accepts requests once the startup of lifespan has completed
Serve == phase = "serving" /\ Request

Init ==
    /\ phase = "init"
    /\ store = NoStore
    /\ predictor = "None"
    /\ loadpc = "idle"
    /\ loadResult = "none"
    /\ loadErrors = <<>>
    /\ now = StartClock
    /\ last = NoRequest
    /\ memo = NoRequest
    /\ predErrors = 0
    /\ call = NoCall
    /\ threads = [t \in Threads |-> IdleThread]

Next == LifespanEnter \/ LifespanRead \/ LifespanValidate \/ Serve \/ Tick

Spec == Init /\ [][Next]_vars

\* ---------------------------------------------------------------------------
\* Two answers to the same request: the caller keeps an earlier answer
\* ---------------------------------------------------------------------------
Remember ==
    /\ last.endpoint = "predict"
    /\ last.status = 200
    /\ memo' = last
    /\ UNCHANGED <<threads, call, phase, store, predictor, loadpc, loadResult, loadErrors, now, last,
                   predErrors>>

ServeTwice == phase = "serving" /\ \E c \in SomeClients : PostPredict(c)

NextTwice ==
    LifespanEnter \/ LifespanRead \/ LifespanValidate \/ ServeTwice \/ Remember \/ Tick

SpecTwice == Init /\ [][NextTwice]_vars

\* ---------------------------------------------------------------------------
\* The application object under a host that does not run lifespan, or that
\* goes on calling the handlers after a startup that failed (a TestClient
\* used without its context manager): the handlers see the module globals as
\* they are
\* ---------------------------------------------------------------------------
DirectRequest ==
    /\ phase \in {"init", "aborted"}
    /\ \/ \E c \in SomeClients \cup InvalidRequests : PostPredict(c)
       \/ HandleHealth
       \/ HandleModelInfo

NextApp == Next \/ DirectRequest

SpecApp == Init /\ [][NextApp]_vars

\* ---------------------------------------------------------------------------
\* A ModelStore on its own: load_model called any number of times
\* ---------------------------------------------------------------------------
\* load_model, line 44
StoreLoadRead ==
    /\ phase = "store"
    /\ loadpc = "idle"
    /\ \/ /\ loadResult' = "FileNotFoundError"
          /\ loadErrors' = <<>>
          /\ UNCHANGED <<store, loadpc>>
       \/ \E id \in BundleIds :
             /\ store' = load_assign(store, id)
             /\ loadpc' = "validate"
             /\ UNCHANGED <<loadResult, loadErrors>>
    /\ UNCHANGED <<threads, call, phase, predictor, now, last, memo, predErrors>>

\* load_model, lines 45-46
StoreLoadValidate ==
    /\ phase = "store"
    /\ loadpc = "validate"
    /\ LET errors == validate(artifact_of(store))
       IN  /\ store' = load_finish(store)
           /\ loadErrors' = errors
           /\ loadResult' = IF errors = <<>> THEN "ok" ELSE "ValueError"
    /\ loadpc' = "idle"
    /\ UNCHANGED <<threads, call, phase, predictor, now, last, memo, predErrors>>

InitStore ==
    /\ phase = "store"
    /\ store = NewStore
    /\ predictor = "None"
    /\ loadpc = "idle"
    /\ loadResult = "none"
    /\ loadErrors = <<>>
    /\ now = StartClock
    /\ last = NoRequest
    /\ memo = NoRequest
    /\ predErrors = 0
    /\ call = NoCall
    /\ threads = [t \in Threads |-> IdleThread]

NextStore == StoreLoadRead \/ StoreLoadValidate

SpecStore == InitStore /\ [][NextStore]_vars

\* ---------------------------------------------------------------------------
\* The functions of predictor.py called on their own, as a unit test calls them
\* ---------------------------------------------------------------------------
\* classes_ of fitted encoders: empty, with and without "nan", with ""
Vocabularies ==
    {<<>>, <<"nan">>, <<"H", "V">>, <<"H", "V", "nan">>, <<"", "H", "nan">>,
     <<"", "S">>, <<"KAT", "KHE", "OTHER">>, <<"N", "OTHER", "nan">>}

EncodedValues == {"", "H", "V", "N", "S", "nan", "OTHER", "KHE", "X", "None"}

\* renta is a float in the schema; the model keeps whole amounts
Rentas == {None, Some(0), Some(-100), Some(1), Some(50000), Some(150000)}

Segmentos ==
    {None, Some("01 - TOP"), Some("02 - PARTICULARES"), Some("03 - UNIVERSITARIO"),
     Some("UNKNOWN"), Some("")}

\* canal_entrada and nomprov: absent, whitelisted, known to the encoder
\* only, the literal "OTHER", unknown, empty
Canales == {None, Some("KHE"), Some("KAT"), Some("OTHER"), Some("UNKNOWN_CHANNEL"),
            Some("")}

Provincias == {None, Some("MADRID"), Some("BARCELONA"), Some("OTHER"),
               Some("UNKNOWN_PROVINCE"), Some("")}

\* fecha_dato: absent, empty, well-formed (also before the start of the
\* dataset) and malformed
FnDates ==
    {None, Some(<<>>),
     Some(<<"2", "0", "1", "6", "-", "0", "5", "-", "2", "8">>),
     Some(<<"n", "o", "t", "-", "a", "-", "d", "a", "t", "e">>),
     Some(<<"2", "0", "1", "5", "-", "0", "1", "-", "1", "5">>),
     Some(<<"2", "0", "1", "4", "-", "1", "2", "-", "3", "1">>),
     Some(<<"2", "0", "1", "5", "-", "0", "2", "-", "0", "1">>),
     Some(<<"2", "0", "1", "5", "-", "0", "3", "-", "0", "9">>),
     Some(<<"2", "0", "1", "6", "-", "0", "2", "-", "3", "0">>),
     Some(<<"2", "0", "1", "6", "-", "1", "3", "-", "0", "1">>),
     Some(<<"2", "0", "1", "6", "-", "5", "-", "8">>),
     Some(<<"2", "8", "-", "0", "5", "-", "2", "0", "1", "6">>),
     Some(<<"2", "0", "1", "6", "/", "0", "5", "/", "2", "8">>),
     Some(<<"0", "0", "0", "1", "-", "0", "1", "-", "0", "1">>),
     Some(<<"2", "0", "1", "6", "-", "0", "5", "-", "2", "8", " ">>)}

FnClients ==
    {[MinimalClient EXCEPT !.renta = r, !.segmento = sg] :
        r \in Rentas, sg \in Segmentos}
    \cup {[MinimalClient EXCEPT !.fecha_dato = d] : d \in FnDates}
    \cup {[MinimalClient EXCEPT !.prev_products = pm] : pm \in PrevMaps}
    \cup {[MinimalClient EXCEPT !.canal_entrada = ch, !.nomprov = pv] :
             ch \in Canales, pv \in Provincias}
    \cup {FullClient, UnknownClient}

\* the calls to make: BankPredictor(store)._preprocess(client) on a store
\* that loaded its artifact, and _safe_label_encode(encoder, value)
PendingCalls ==
    {[fn |-> "_preprocess", done |-> FALSE, artifact |-> id, client |-> c,
      clock |-> ClockAfter(ticks), out |-> [exc |-> "none", X |-> <<>>]] :
        id \in ValidBundleIds, c \in FnClients, ticks \in 0..MaxTicks}
    \cup {[fn |-> "_safe_label_encode", done |-> FALSE, encoder |-> encoder,
           value |-> value, out |-> {}] :
             encoder \in Vocabularies, value \in EncodedValues}

\* _preprocess runs
CallPreprocess ==
    /\ phase = "call"
    /\ call.fn = "_preprocess" /\ ~call.done
    /\ call' = [call EXCEPT !.done = TRUE,
                            !.out = preprocess(Bundle(call.artifact), call.client,
                                               call.clock)]
    /\ UNCHANGED <<threads, phase, store, predictor, loadpc, loadResult, loadErrors, now,
                   last, memo, predErrors>>

\* _safe_label_encode runs
CallSafeLabelEncode ==
    /\ phase = "call"
    /\ call.fn = "_safe_label_encode" /\ ~call.done
    /\ call' = [call EXCEPT !.done = TRUE,
                            !.out = safe_label_encode(call.encoder, call.value)]
    /\ UNCHANGED <<threads, phase, store, predictor, loadpc, loadResult, loadErrors, now,
                   last, memo, predErrors>>

InitFn ==
    /\ phase = "call"
    /\ store = NoStore
    /\ predictor = "None"
    /\ loadpc = "idle"
    /\ loadResult = "none"
    /\ loadErrors = <<>>
    /\ now = StartClock
    /\ last = NoRequest
    /\ memo = NoRequest
    /\ predErrors = 0
    /\ call \in PendingCalls
    /\ threads = [t \in Threads |-> IdleThread]

NextFn == CallPreprocess \/ CallSafeLabelEncode

SpecFn == InitFn /\ [][NextFn]_vars

\* ---------------------------------------------------------------------------
\* Concurrent requests: each worker thread runs predictor.predict step by
\* step on the one loaded store
\* ---------------------------------------------------------------------------
ConcClients ==
    {[MinimalClient EXCEPT !.top_k = 3],
     [MinimalClient EXCEPT !.top_k = 3, !.prev_products = (PA :> 1)],
     FullClient}

\* a faulty variant of scored_vector: the feature vector is kept in an
\* attribute of the predictor that every call overwrites
scored_vector_shared(th, t) ==
    LET others == {u \in DOMAIN th : u # t /\ th[u].X # <<>>}
    IN  IF others = {} THEN th[t].X ELSE th[CHOOSE u \in others : TRUE].X

\* lines 236 and 241: X is a local variable of the call
scored_vector(th, t) == th[t].X

\* main.py lines 181-185: the handler is ready and calls predictor.predict
ThreadStart(t) ==
    /\ phase = "serving"
    /\ ~not_ready(store) /\ predictor # "None"
    /\ threads[t].pc = "idle"
    /\ \E c \in ConcClients :
          threads' = [threads EXCEPT ![t] = [IdleThread EXCEPT !.pc = "preprocess",
                                                              !.client = c]]
    /\ UNCHANGED <<phase, store, predictor, loadpc, loadResult, loadErrors, now, last,
                   memo, predErrors, call>>

\* lines 229-236: the accessors, then X = self._preprocess(client_data)
ThreadPreprocess(t) ==
    /\ threads[t].pc = "preprocess"
    /\ LET art == artifact_of(store)
           pre == preprocess(art, threads[t].client, now)
           exc == IF pre.exc # "none" THEN pre.exc
                  ELSE IF ~(Range(art["product_cols"]) \subseteq DOMAIN art["models"])
                  THEN "KeyError" ELSE "none"
       IN  /\ exc # "none" => predErrors < MaxErrors
           /\ predErrors' = errors_after(exc, predErrors)
           /\ threads' = [threads EXCEPT ![t] =
                  IF exc # "none"
                  THEN [@ EXCEPT !.pc = "done", !.clock = now,
                                 !.out = [exc |-> exc, result |-> NoResult]]
                  ELSE [@ EXCEPT !.pc = "score", !.clock = now, !.X = pre.X]]
    /\ UNCHANGED <<phase, store, predictor, loadpc, loadResult, loadErrors, now, last,
                   memo, call>>

\* lines 238-252: the classifiers on X, then the exclusion of owned products
ThreadScore(t) ==
    /\ threads[t].pc = "score"
    /\ LET art == artifact_of(store)
           X == scored_vector(threads, t)
           exc == IF scoring_raises(art, X) THEN "ValueError" ELSE "none"
           mixed == \E u \in Threads : u # t /\ threads[u].X \notin {<<>>, threads[t].X}
       IN  /\ exc # "none" => predErrors < MaxErrors
           /\ predErrors' = errors_after(exc, predErrors)
           /\ threads' = [threads EXCEPT ![t] =
                  IF exc # "none"
                  THEN [@ EXCEPT !.pc = "done", !.mixed = mixed,
                                 !.out = [exc |-> exc, result |-> NoResult]]
                  ELSE [@ EXCEPT !.pc = "rank", !.mixed = mixed,
                                 !.probabilities =
                                     probabilities_of(art, threads[t].client, X)]]
    /\ UNCHANGED <<phase, store, predictor, loadpc, loadResult, loadErrors, now, last,
                   memo, call>>

\* lines 255-288: the ranking and the dict returned
ThreadRank(t) ==
    /\ threads[t].pc = "rank"
    /\ threads' = [threads EXCEPT ![t] =
           [@ EXCEPT !.pc = "done",
                     !.out = [exc |-> "none",
                              result |-> result_of(artifact_of(store), threads[t].client,
                                                   threads[t].probabilities)]]]
    /\ UNCHANGED <<phase, store, predictor, loadpc, loadResult, loadErrors, now, last,
                   memo, predErrors, call>>

\* the handler answers and the locals of the call are gone
ThreadReturn(t) ==
    /\ threads[t].pc = "done"
    /\ threads' = [threads EXCEPT ![t] = IdleThread]
    /\ UNCHANGED <<phase, store, predictor, loadpc, loadResult, loadErrors, now, last,
                   memo, predErrors, call>>

NextConc ==
    \/ LifespanEnter \/ LifespanRead \/ LifespanValidate \/ Tick
    \/ \E t \in Threads : ThreadStart(t)
    \/ \E t \in Threads : ThreadPreprocess(t)
    \/ \E t \in Threads : ThreadScore(t)
    \/ \E t \in Threads : ThreadRank(t)
    \/ \E t \in Threads : ThreadReturn(t)

SpecConc == Init /\ [][NextConc]_vars

\* ===========================================================================
\* Properties
\* ===========================================================================
\* predictor.predict returned a result for the last request
Returned == last.endpoint = "predict" /\ last.status \in {200, 500}

Recs == last.body.recommendations

LoadedCols == artifact_of(store)["product_cols"]

\* the entries of product_cols the request flags with 1
OwnedEntries(c, cols) ==
    {i \in 1..Len(cols) : Get(c.prev_products, cols[i], 0) = 1}

\* C1: no entry of the list returned by predict names a product whose
\* ownership flag in the request equals 1.
C1_NoOwnedProductRecommended ==
    Returned =>
        \A i \in 1..Len(Recs) :
            Get(last.client.prev_products, Recs[i].product_col, 0) # 1

\* an owned product whose classifier gives a positive probability was left out
C1_Witness ==
    /\ Returned
    /\ store.artifact = "ref"
    /\ Get(last.client.prev_products, PA, 0) = 1
    /\ Len(Recs) >= 1

\* C2 (as claimed): the returned, rounded probabilities are non-increasing and
\* each is strictly greater than 0.
C2_RoundedSortedAndPositive ==
    Returned =>
        /\ \A i \in 1..Len(Recs) : \A j \in i..Len(Recs) :
              Recs[i].probability >= Recs[j].probability
        /\ \A i \in 1..Len(Recs) : Recs[i].probability > 0

\* C3: for K in [1, N] the list has at most K entries and at most N minus the
\* number of owned products.
C3_LengthBounds ==
    (Returned /\ last.client.top_k >= 1 /\ last.client.top_k <= Len(LoadedCols)) =>
        /\ Len(Recs) <= last.client.top_k
        /\ Len(Recs) <= Len(LoadedCols) - Cardinality(OwnedEntries(last.client, LoadedCols))

\* both bounds are met with equality by a client who owns a product
C3_Witness ==
    /\ Returned
    /\ last.client.top_k <= Len(LoadedCols)
    /\ OwnedEntries(last.client, LoadedCols) # {}
    /\ Len(Recs) = last.client.top_k
    /\ Len(Recs) = Len(LoadedCols) - Cardinality(OwnedEntries(last.client, LoadedCols))

\* C4: n_current_products is the number of entries of product_cols flagged 1
\* in the request, whatever K, the probabilities and the filtering are.
C4_CurrentProductsCount ==
    Returned =>
        last.body.n_current_products = Cardinality(OwnedEntries(last.client, LoadedCols))

\* two owned products are counted although K = 1 and neither is in the list
C4_Witness ==
    /\ Returned
    /\ last.client.top_k = 1
    /\ last.body.n_current_products = 2
    /\ Len(Recs) = 1

\* the request carries an observation date that strptime accepts
WellFormedDate(c) ==
    /\ c.fecha_dato # None
    /\ Val(c.fecha_dato) # <<>>
    /\ strptime(Val(c.fecha_dato)) # {}

SameRequestTwice ==
    /\ Returned
    /\ memo.endpoint = "predict"
    /\ memo.client = last.client

\* C5 (as claimed): two predict calls with an identical record against the
\* same artifact return identical results, whenever they are made.
C5_SameRequestSameResult ==
    SameRequestTwice => memo.body = last.body

\* C5 (amended): they return identical results when the record carries a
\* well-formed observation date or both calls fall in the same calendar month.
C5_SameResultGivenDateOrMonth ==
    (SameRequestTwice /\ (WellFormedDate(last.client) \/ memo.clock = last.clock)) =>
        memo.body = last.body

\* the same dated request answered in two different months
C5_Witness ==
    /\ SameRequestTwice
    /\ WellFormedDate(last.client)
    /\ memo.clock # last.clock
    /\ Len(Recs) >= 1

\* the last load_model call has returned or raised
LoadEnded(result) == loadpc = "idle" /\ loadResult = result

\* C6 (as claimed): after a load_model call that fails validation the store is
\* not loaded, whatever calls came before.
C6_FailedLoadLeavesNotLoaded ==
    LoadEnded("ValueError") => ~is_loaded(store)

\* the structural invariant of an artifact
Consistent(artifact) ==
    /\ {"models", "product_cols", "label_encoders"} \subseteq DOMAIN artifact
    /\ DOMAIN artifact["models"] = Range(artifact["product_cols"])
    /\ DOMAIN artifact["models"] # {}
    /\ DOMAIN artifact["label_encoders"] # {}

\* C7 (as claimed): whenever is_loaded() is true, also in the middle of a
\* load_model call, the artifact the accessors expose is consistent.
C7_LoadedImpliesConsistent ==
    is_loaded(store) =>
        /\ store.artifact # NoArtifact
        /\ Consistent(artifact_of(store))

\* the rules of section 4.1 a bundle breaks; a rule about a mapping the bundle
\* does not have is covered by the missing-keys rule
BrokenRules(artifact) ==
    {r \in {"missing_keys", "models_empty", "mismatch", "encoders_empty"} :
        \/ r = "missing_keys" /\ \E k \in EXPECTED_KEYS : k \notin DOMAIN artifact
        \/ /\ r = "models_empty"
           /\ "models" \in DOMAIN artifact
           /\ Cardinality(DOMAIN artifact["models"]) = 0
        \/ /\ r = "mismatch"
           /\ {"models", "product_cols"} \subseteq DOMAIN artifact
           /\ \/ \E k \in DOMAIN artifact["models"] :
                    \A i \in 1..Len(artifact["product_cols"]) :
                        artifact["product_cols"][i] # k
              \/ \E i \in 1..Len(artifact["product_cols"]) :
                    artifact["product_cols"][i] \notin DOMAIN artifact["models"]
        \/ /\ r = "encoders_empty"
           /\ "label_encoders" \in DOMAIN artifact
           /\ Cardinality(DOMAIN artifact["label_encoders"]) = 0}

\* C8: the ValueError of a failed load lists one violation for each rule the
\* bundle breaks, none left out and none listed twice.
C8_AllViolationsReported ==
    LoadEnded("ValueError") =>
        /\ {loadErrors[i].rule : i \in 1..Len(loadErrors)}
              = BrokenRules(artifact_of(store))
        /\ \A i \in 1..Len(loadErrors) : \A j \in 1..Len(loadErrors) :
              loadErrors[i].rule = loadErrors[j].rule => i = j

\* a bundle that breaks the four rules at once had all four listed
C8_Witness ==
    /\ LoadEnded("ValueError")
    /\ Cardinality(BrokenRules(artifact_of(store))) = 4
    /\ Len(loadErrors) = 4

\* C9 (as claimed): a request that arrives when no store exists or the store
\* is not loaded is answered 503, without calling predictor.predict or
\* reading an accessor.
C9_NotReadyAnswered503 ==
    (last.endpoint # "none" /\ ~last.ready) =>
        /\ last.status = 503
        /\ ~last.predict_called
        /\ ~last.accessor_read

\* C9: a request that reaches its handler when no store exists or the store
\* is not loaded is answered 503; a predict request whose body the schema
\* refuses is answered with the validation error before the handler runs;
\* in both cases predictor.predict is not called and no accessor is read.
C9_HandlerNotReadyAnswered503 ==
    (last.endpoint # "none" /\ ~last.ready) =>
        /\ IF last.endpoint = "predict" /\ ~schema_valid(last.client)
           THEN last.status = 422 /\ last.body = ValidationError
           ELSE last.status = 503
        /\ ~last.predict_called
        /\ ~last.accessor_read

\* a predict request met a store that exists and is not loaded
C9_Witness ==
    /\ last.endpoint = "predict"
    /\ ~last.ready
    /\ store.exists
    /\ ~store.loaded
    /\ last.status = 503

\* C10: the serving phase is reached only after load_model returned
\* successfully; after a failed load the process has aborted.
C10_ServingOnlyAfterLoad ==
    /\ phase = "serving" =>
          /\ loadResult = "ok"
          /\ loadpc = "idle"
          /\ store.exists /\ is_loaded(store)
          /\ store.artifact # NoArtifact
          /\ validate(artifact_of(store)) = <<>>
    /\ loadResult \in {"FileNotFoundError", "ValueError"} => phase = "aborted"

\* a request was served after a successful load
C10_Witness ==
    /\ phase = "serving"
    /\ loadResult = "ok"
    /\ last.endpoint = "predict"
    /\ last.status = 200

\* the function was called on its own and has ended
Called(fn) == call.fn = fn /\ call.done

\* C11: _preprocess completes without raising for every artifact that passed
\* load validation and every schema-valid client record.
C11_PreprocessNeverRaises ==
    Called("_preprocess") => call.out.exc = "none"

\* the vocabulary-or-"nan"-or-0 rule, written out
ExpectedCode(vocabulary, value) ==
    IF \E i \in 1..Len(vocabulary) : vocabulary[i] = value
    THEN {i - 1 : i \in {j \in 1..Len(vocabulary) : vocabulary[j] = value}}
    ELSE IF \E i \in 1..Len(vocabulary) : vocabulary[i] = "nan"
    THEN {i - 1 : i \in {j \in 1..Len(vocabulary) : vocabulary[j] = "nan"}}
    ELSE {0}

\* C12: _safe_label_encode never raises and returns the code of the value when
\* the vocabulary has it, else the code of "nan" when the vocabulary has it,
\* else 0.
C12_SafeEncodeFallback ==
    Called("_safe_label_encode") =>
        /\ call.out # {}
        /\ call.out = ExpectedCode(call.encoder, call.value)

\* an unseen empty string is encoded with the code of "nan"
C12_Witness ==
    /\ Called("_safe_label_encode")
    /\ call.value = ""
    /\ call.encoder = <<"H", "V", "nan">>
    /\ call.out = {2}

\* C13: a request whose K is outside 1..len(product_cols) of the loaded
\* artifact is refused by the validation layer and does not reach predict;
\* every K that reaches predict is within 1..len(product_cols).
C13_TopKWithinCatalog ==
    (last.endpoint = "predict" /\ last.ready) =>
        /\ last.predict_called => last.client.top_k \in 1..Len(LoadedCols)
        /\ last.client.top_k \notin 1..Len(LoadedCols) =>
              /\ last.status = 422
              /\ last.body = ValidationError
              /\ ~last.predict_called

\* _preprocess was called on its own and returned a feature vector
Built == Called("_preprocess") /\ call.out.exc = "none"

\* the dict features of the call
CallFeatures == features_of(Bundle(call.artifact), call.client, call.clock)

CallFeatureCols == Bundle(call.artifact)["feature_cols"]

\* C14: the feature vector has exactly len(feature_cols) values, the i-th one
\* being the computed feature named by the i-th entry of feature_cols, or 0
\* when the builder computes no feature of that name; a computed feature
\* whose name is not in feature_cols has no place in the vector.
C14_VectorFollowsFeatureCols ==
    Built =>
        /\ Len(call.out.X) = Len(CallFeatureCols)
        /\ \A i \in 1..Len(CallFeatureCols) :
              call.out.X[i] = IF CallFeatureCols[i] \in DOMAIN CallFeatures
                              THEN CallFeatures[CallFeatureCols[i]]
                              ELSE 0

\* an artifact whose feature_cols leaves out "age" and names a column the
\* builder does not compute: log_renta comes first, the unknown column is 0
C14_Witness ==
    /\ Built
    /\ call.artifact = "extra"
    /\ call.client = FullClient
    /\ "age" \in DOMAIN CallFeatures /\ "age" \notin Range(CallFeatureCols)
    /\ Len(call.out.X) = 25
    /\ call.out.X[1] = 11918397
    /\ call.out.X[25] = 0

\* the step answers a predict request that reached predictor.predict
PredictAnswered == last' # last /\ last'.endpoint = "predict" /\ last'.predict_called

\* what predict does with the request of the answer, on the loaded artifact
PredictOutcome == predict_all[store.artifact][Elapsed(now)][last'.client]

\* C15: a predict call that raises adds exactly one to PREDICTION_ERRORS
\* and is answered with a prediction failure that carries the exception; a
\* predict call that returns leaves the counter alone; the counter moves in
\* no other way, and no request changes the store, which stays loaded.
C15_FailureCountedOnceStoreUntouched ==
    [][/\ (PredictAnswered /\ last'.status = 422) =>
             /\ predErrors' = predErrors + 1
             /\ PredictOutcome.exc # "none"
             /\ last'.body = PredictionFailure(PredictOutcome.exc)
       /\ (PredictAnswered /\ last'.status # 422) =>
             /\ predErrors' = predErrors
             /\ PredictOutcome.exc = "none"
       /\ predErrors' # predErrors =>
             /\ predErrors' = predErrors + 1
             /\ last'.endpoint = "predict" /\ last'.status = 422
             /\ last'.predict_called
       /\ phase = "serving" => (store' = store /\ is_loaded(store'))]_vars

\* after a prediction failure that was counted, a later request is answered
\* from the same loaded store
C15_Witness ==
    /\ predErrors = 1
    /\ last.endpoint = "info" /\ last.status = 200
    /\ is_loaded(store)

\* C16: whatever the interleaving of the predict calls of the worker
\* threads, the result of each call is the result predict gives for its
\* request on its own (same artifact, same reading of the clock), and no
\* step of a call changes the store: the loaded flag and the artifact stay.
C16_ConcurrentCallsIndependent ==
    /\ [](\A t \in Threads :
             threads[t].pc = "done" =>
                 threads[t].out = predict(artifact_of(store), threads[t].client,
                                          threads[t].clock))
    /\ [][phase = "serving" => (store' = store /\ is_loaded(store'))]_vars

\* a call has returned recommendations although another call held a
\* different feature vector while this one was scoring
C16_Witness ==
    \E t \in Threads :
        /\ threads[t].pc = "done"
        /\ threads[t].mixed
        /\ threads[t].out.exc = "none"
        /\ threads[t].out.result.recommendations # <<>>

\* C17: a load_model call whose bundle breaks none of the four rules ends
\* normally with the store marked loaded; a call whose bundle breaks a rule
\* raises ValueError and does not touch the loaded flag, so that a store that
\* was not loaded before the call is loaded after it exactly when no rule is
\* broken.
C17_LoadedIffNoRuleBroken ==
    [][loadpc = "validate" =>
          IF BrokenRules(artifact_of(store)) = {}
          THEN loadResult' = "ok" /\ is_loaded(store')
          ELSE /\ loadResult' = "ValueError"
               /\ is_loaded(store') = is_loaded(store)
               /\ "mismatch" \in BrokenRules(artifact_of(store)) =>
                     \E i \in 1..Len(loadErrors') :
                        /\ loadErrors'[i].rule = "mismatch"
                        /\ loadErrors'[i].only_models =
                              DOMAIN artifact_of(store)["models"]
                                 \ Range(artifact_of(store)["product_cols"])
                        /\ loadErrors'[i].only_products =
                              Range(artifact_of(store)["product_cols"])
                                 \ DOMAIN artifact_of(store)["models"]]_vars

\* a bundle with a product that has no classifier, and nothing else wrong,
\* was refused and the store is not loaded
C17_Witness ==
    /\ LoadEnded("ValueError")
    /\ store.artifact = "missing_model"
    /\ BrokenRules(artifact_of(store)) = {"mismatch"}
    /\ ~is_loaded(store)

\* the probabilities predict ranked for the last request: those of the
\* classifiers, with the owned products at 0.0 and before rounding
RankedProbabilities ==
    probabilities_of(artifact_of(store), last.client,
                     preprocess(artifact_of(store), last.client, last.clock).X)

\* the place of the first occurrence of a product in product_cols
FirstIndex(cols, col) ==
    CHOOSE i \in 1..Len(cols) :
        cols[i] = col /\ \A j \in 1..(i - 1) : cols[j] # col

RecCols == {Recs[i].product_col : i \in 1..Len(Recs)}

\* C18: two returned entries of equal probability come in the order of
\* product_cols, and a product left out by the truncation to K that has the
\* probability of a returned entry comes after that entry in product_cols.
C18_TiesKeepProductOrder ==
    Returned =>
        /\ \A i \in 1..Len(Recs) : \A j \in 1..Len(Recs) :
              (i < j /\ RankedProbabilities[Recs[i].product_col]
                          = RankedProbabilities[Recs[j].product_col])
                  => FirstIndex(LoadedCols, Recs[i].product_col)
                        < FirstIndex(LoadedCols, Recs[j].product_col)
        /\ \A i \in 1..Len(Recs) : \A col \in Range(LoadedCols) \ RecCols :
              RankedProbabilities[col] = RankedProbabilities[Recs[i].product_col]
                  => FirstIndex(LoadedCols, Recs[i].product_col)
                        < FirstIndex(LoadedCols, col)

\* K = 1 cut through two products of equal probability and the first of
\* product_cols was kept
C18_Witness ==
    /\ Returned
    /\ last.client.top_k = 1
    /\ Len(Recs) = 1
    /\ Recs[1].product_col = LoadedCols[1]
    /\ RankedProbabilities[LoadedCols[2]] = RankedProbabilities[LoadedCols[1]]

\* the value of a named feature in the vector of the call
CallValue(name) ==
    call.out.X[CHOOSE i \in 1..Len(CallFeatureCols) : CallFeatureCols[i] = name]

\* <<year, month>> of the date the claim names: the observation date when
\* strptime accepts it, else the reading of the clock
ClaimedDate ==
    IF WellFormedDate(call.client)
    THEN LET dt == Val(strptime(Val(call.client.fecha_dato))) IN <<dt[1], dt[2]>>
    ELSE call.clock

ClaimedIncome(c) ==
    IF c.renta # None /\ Val(c.renta) > 0 THEN Val(c.renta)
    ELSE IF c.segmento = Some("01 - TOP") THEN 234340
    ELSE IF c.segmento = Some("02 - PARTICULARES") THEN 101340
    ELSE IF c.segmento = Some("03 - UNIVERSITARIO") THEN 86200
    ELSE 101850

\* C20: log_renta is log(1 + income) of the client's income when it is
\* present and greater than 0, else of the default of the client's segment
\* (234340, 101340, 86200), else of the global default 101850.
C20_IncomeOrSegmentDefault ==
    Built => CallValue("log_renta") = log1p(ClaimedIncome(call.client))

\* income absent, segment "01 - TOP": log(1 + 234340)
C20_Witness ==
    /\ Built
    /\ call.client.renta = None
    /\ call.client.segmento = Some("01 - TOP")
    /\ CallValue("log_renta") = 12364532

\* the string the claim names for a raw value and a whitelist
ClaimedString(raw, whitelist) ==
    IF raw # None /\ \E i \in 1..Len(whitelist) : whitelist[i] = Val(raw)
    THEN Val(raw)
    ELSE "OTHER"

\* the feature of a whitelisted field is the safe-encode of the claimed string
EncodedAsClaimed(feature, raw, whitelist, encoder) ==
    {CallValue(feature)} = ExpectedCode(encoder, ClaimedString(raw, whitelist))

\* a present value outside the whitelist that the encoder knows
KnownNotWhitelisted(raw, whitelist, encoder) ==
    /\ raw # None
    /\ Val(raw) \notin Range(whitelist)
    /\ Val(raw) \in Range(encoder)

CallArtifact == Bundle(call.artifact)

\* C21 (as claimed): canal_entrada_enc and nomprov_enc are the safe-encode of
\* the raw value when it is whitelisted and of "OTHER" otherwise, and a value
\* outside the whitelist never gets the code of its own raw string.
C21_WhitelistNeverOwnCode ==
    Built =>
        /\ EncodedAsClaimed("canal_entrada_enc", call.client.canal_entrada,
                            CallArtifact["top20_canal"],
                            CallArtifact["label_encoders"]["canal_entrada"])
        /\ EncodedAsClaimed("nomprov_enc", call.client.nomprov,
                            CallArtifact["top20_prov"],
                            CallArtifact["label_encoders"]["nomprov"])
        /\ KnownNotWhitelisted(call.client.canal_entrada, CallArtifact["top20_canal"],
                               CallArtifact["label_encoders"]["canal_entrada"])
              => {CallValue("canal_entrada_enc")}
                    # transform(CallArtifact["label_encoders"]["canal_entrada"],
                                Val(call.client.canal_entrada))
        /\ KnownNotWhitelisted(call.client.nomprov, CallArtifact["top20_prov"],
                               CallArtifact["label_encoders"]["nomprov"])
              => {CallValue("nomprov_enc")}
                    # transform(CallArtifact["label_encoders"]["nomprov"],
                                Val(call.client.nomprov))

\* C21: canal_entrada_enc and nomprov_enc are the safe-encode of the raw
\* value when it is whitelisted and of "OTHER" otherwise; a value outside the
\* whitelist gets a code other than that of its own raw string when the
\* encoder knows "OTHER" and the raw string is not "OTHER" itself.
C21_WhitelistOrOther ==
    Built =>
        /\ EncodedAsClaimed("canal_entrada_enc", call.client.canal_entrada,
                            CallArtifact["top20_canal"],
                            CallArtifact["label_encoders"]["canal_entrada"])
        /\ EncodedAsClaimed("nomprov_enc", call.client.nomprov,
                            CallArtifact["top20_prov"],
                            CallArtifact["label_encoders"]["nomprov"])
        /\ (/\ KnownNotWhitelisted(call.client.canal_entrada,
                                    CallArtifact["top20_canal"],
                                    CallArtifact["label_encoders"]["canal_entrada"])
            /\ call.client.canal_entrada # Some("OTHER")
            /\ "OTHER" \in Range(CallArtifact["label_encoders"]["canal_entrada"]))
              => {CallValue("canal_entrada_enc")}
                    # transform(CallArtifact["label_encoders"]["canal_entrada"],
                                Val(call.client.canal_entrada))
        /\ (/\ KnownNotWhitelisted(call.client.nomprov, CallArtifact["top20_prov"],
                                    CallArtifact["label_encoders"]["nomprov"])
            /\ call.client.nomprov # Some("OTHER")
            /\ "OTHER" \in Range(CallArtifact["label_encoders"]["nomprov"]))
              => {CallValue("nomprov_enc")}
                    # transform(CallArtifact["label_encoders"]["nomprov"],
                                Val(call.client.nomprov))

\* a channel the encoder knows (code 0) but the whitelist does not hold is
\* encoded as "OTHER" (code 3)
C21_Witness ==
    /\ Built
    /\ call.artifact = "narrow"
    /\ call.client.canal_entrada = Some("KAT")
    /\ CallValue("canal_entrada_enc") = 3

\* the probabilities of the classifiers for the last request, before the
\* exclusion of owned products
ClassifierProbabilities ==
    score(artifact_of(store)["models"], LoadedCols,
          preprocess(artifact_of(store), last.client, last.clock).X)

\* the products of product_cols the request does not flag with 1 and whose
\* classifier gives a probability greater than 0
Recommendable ==
    {col \in Range(LoadedCols) :
        /\ Get(last.client.prev_products, col, 0) # 1
        /\ ClassifierProbabilities[col] > 0}

\* C22: the list returned by predict has exactly min(K, P) entries, P being
\* the number of products the client does not own whose classifier
\* probability is greater than 0; it is non-empty whenever K >= 1 and
\* P >= 1.
C22_LengthIsMinOfKAndP ==
    Returned =>
        /\ Len(Recs) = Min(last.client.top_k, Cardinality(Recommendable))
        /\ (last.client.top_k >= 1 /\ Cardinality(Recommendable) >= 1)
              => Recs # <<>>

\* K = 1 and the first product of product_cols is owned, hence ranked with
\* probability 0: the one entry returned is a product of positive probability
C22_Witness ==
    /\ Returned
    /\ last.client.top_k = 1
    /\ Get(last.client.prev_products, LoadedCols[1], 0) = 1
    /\ Cardinality(Recommendable) >= 1
    /\ Len(Recs) = 1

\* the dict features _preprocess built for the last request
LastFeatures == features_of(artifact_of(store), last.client, last.clock)

\* C23: for every ownership mapping, with flags other than 0 and 1 too, the
\* feature n_products equals the returned n_current_products, and the
\* feature prev_<product> is 1 exactly for the products whose probability the
\* exclusion step sets to 0.
C23_BuilderAndRankingAgreeOnOwned ==
    Returned =>
        /\ LastFeatures["n_products"] = last.body.n_current_products
        /\ \A col \in Range(LoadedCols) :
              LastFeatures["prev_" \o col] = 1
                  <=> Get(last.client.prev_products, col, 0) = 1

\* the last request without the entries of its ownership mapping that
\* product_cols does not name
WithoutForeignEntries ==
    [last.client EXCEPT !.prev_products =
        [k \in DOMAIN last.client.prev_products \cap Range(LoadedCols) |->
            last.client.prev_products[k]]]

\* C24: every product_col of the list returned by predict is an entry of
\* product_cols and no product_col is listed twice; the entries of the
\* ownership mapping that product_cols does not name change nothing: the
\* result is the result of the request without them.
C24_OnlyCatalogProductsOnce ==
    Returned =>
        /\ \A i \in 1..Len(Recs) : Recs[i].product_col \in Range(LoadedCols)
        /\ \A i \in 1..Len(Recs) : \A j \in 1..Len(Recs) :
              Recs[i].product_col = Recs[j].product_col => i = j
        /\ last.body = predict(artifact_of(store), WithoutForeignEntries,
                               last.clock).result

\* the request flags a product that product_cols does not name, and one
\* that it names: one owned product is counted and the list is not empty
C24_Witness ==
    /\ Returned
    /\ \E k \in DOMAIN last.client.prev_products :
          k \notin Range(LoadedCols) /\ last.client.prev_products[k] = 1
    /\ last.body.n_current_products = 1
    /\ Recs # <<>>

====
